---- MODULE Spec2Model ----
(***************************************************************************)
(* Model of functions/Model_functions.py: the per-epoch passes             *)
(* (train_epoch, validate_epoch, test_model), the early-stopping loop      *)
(* train_and_validate_model, and initialise_model.                         *)
(*                                                                         *)
(* Three specifications share the module:                                  *)
(*   SpecEpoch  one call of train_epoch / validate_epoch / test_model,     *)
(*              one step per batch of the loader;                          *)
(*   Spec       one call of train_and_validate_model, the two passes of an *)
(*              epoch being one step each (computed by the same operators  *)
(*              SpecEpoch steps through);                                  *)
(*   SpecInit   one call of initialise_model.                              *)
(*                                                                         *)
(* Python floats are modelled as fractions [num, den]; den = 0 is +inf.    *)
(* What the external library produces for a batch (its size, the loss      *)
(* value of the criterion, the number of correct predictions) is drawn     *)
(* nondeterministically.                                                   *)
(***************************************************************************)
EXTENDS Integers, Sequences, FiniteSets, TLC

\* ---------------------------------------------------------------- bounds
MaxBatches == 2      \* longest loader of SpecEpoch, in batches
MaxBatchSize == 2    \* largest batch, in samples
MaxLoss == 1         \* largest finite per-batch loss value
MaxEpochs == 2       \* largest `epochs` argument
MaxPatience == 2     \* largest `patience` argument
MaxClasses == 3      \* largest `num_classes` argument

\* ---------------------------------------------------------------- floats
F(n) == [num |-> n, den |-> 1]

Inf == [num |-> 1, den |-> 0]

IsInf(a) == a.den = 0

\* a > b on floats (inf > inf is False, inf > x is True for finite x)
FGt(a, b) == a.num * b.den > b.num * a.den

FEq(a, b) == a.num * b.den = b.num * a.den /\ (IsInf(a) <=> IsInf(b))

\* a + b on non-negative floats
FAdd(a, b) ==
    IF IsInf(a) \/ IsInf(b) THEN Inf
    ELSE [num |-> a.num * b.den + b.num * a.den, den |-> a.den * b.den]

\* a / n for an int n > 0
FDiv(a, n) == IF IsInf(a) THEN Inf ELSE [num |-> a.num, den |-> a.den * n]

LossVals == {F(n) : n \in 0..MaxLoss} \cup {Inf}

\* ------------------------------------------------- sequences of bounded length
RECURSIVE SeqsUpTo(_, _)
SeqsUpTo(S, n) ==
    IF n = 0 THEN {<< >>}
    ELSE LET shorter == SeqsUpTo(S, n - 1)
         IN  shorter \cup {Append(s, x) : s \in {t \in shorter : Len(t) = n - 1}, x \in S}

\* ------------------------------------------------------------- the passes
PassFns == {"train_epoch", "validate_epoch", "test_model"}

\* What one batch yields: labels.size(0), loss.item(), (predicted == labels).sum().item()
BatchOutcomes(size) ==
    [size : {size}, loss : LossVals, correct : 0..size]

\* train_loss = 0.0; correct = 0; total = 0
ZeroAcc == [loss |-> F(0), correct |-> 0, total |-> 0]

BatchStepCountsBatches(fn, acc, b) ==
    [loss    |-> IF fn = "test_model" THEN acc.loss ELSE FAdd(acc.loss, b.loss),
     total   |-> acc.total + 1,
     correct |-> acc.correct + b.correct]

\* The body of the batch loop: loss += loss.item(); total += labels.size(0);
\* correct += (predicted == labels).sum().item()
BatchStep(fn, acc, b) ==
    [loss    |-> IF fn = "test_model" THEN acc.loss ELSE FAdd(acc.loss, b.loss),
     total   |-> acc.total + b.size,
     correct |-> acc.correct + b.correct]

\* optimizer.step() changes the weights once per batch, in train_epoch only
WeightsAfterBatch(fn, w) == IF fn = "train_epoch" THEN w + 1 ELSE w

PassResultMeanOverSamples(fn, acc, nbatches) ==
    IF fn # "test_model" /\ nbatches = 0 THEN [raised |-> TRUE, loss |-> F(0), acc |-> F(0)]
    ELSE IF acc.total = 0 THEN [raised |-> TRUE, loss |-> F(0), acc |-> F(0)]
    ELSE [raised |-> FALSE,
          loss   |-> IF fn = "test_model" THEN F(0) ELSE FDiv(acc.loss, acc.total),
          acc    |-> [num |-> 100 * acc.correct, den |-> acc.total]]

\* The statements after the batch loop: avg = loss / len(loader) (a
\* ZeroDivisionError on an empty loader), accuracy = 100 * correct / total
\* (likewise when total is 0). test_model computes the accuracy only.
PassResult(fn, acc, nbatches) ==
    IF fn # "test_model" /\ nbatches = 0 THEN [raised |-> TRUE, loss |-> F(0), acc |-> F(0)]
    ELSE IF acc.total = 0 THEN [raised |-> TRUE, loss |-> F(0), acc |-> F(0)]
    ELSE [raised |-> FALSE,
          loss   |-> IF fn = "test_model" THEN F(0) ELSE FDiv(acc.loss, nbatches),
          acc    |-> [num |-> 100 * acc.correct, den |-> acc.total]]

RECURSIVE RunBatches(_, _, _)
\* The whole batch loop over the outcomes `outs`, starting from `acc`
RunBatches(fn, acc, outs) ==
    IF outs = << >> THEN acc
    ELSE RunBatches(fn, BatchStep(fn, acc, Head(outs)), Tail(outs))

\* A whole pass over a loader whose batches yield `outs`
RunPass(fn, outs) == PassResult(fn, RunBatches(fn, ZeroAcc, outs), Len(outs))

RECURSIVE OutcomeSeqs(_)
\* Every sequence of batch outcomes a loader with these batch sizes can yield
OutcomeSeqs(loader) ==
    IF loader = << >> THEN {<< >>}
    ELSE {<<b>> \o rest : b \in BatchOutcomes(Head(loader)), rest \in OutcomeSeqs(Tail(loader))}

RECURSIVE SumLoss(_)
SumLoss(s) == IF s = << >> THEN F(0) ELSE FAdd(Head(s), SumLoss(Tail(s)))


\* ----------------------------------------------------------------- state
VARIABLES
    \* one call of a pass (SpecEpoch)
    p_fn,              \* which of the three pass functions is running
    p_loader,          \* the loader: the sizes of its batches, in order
    p_i,               \* batches consumed so far
    p_acc,             \* the running loss sum, correct and total
    p_pc,              \* "iter", "returned" or "raised"
    p_ret,             \* what the pass returned
    p_hist,            \* history: the outcome of every batch consumed
    p_visits,          \* history: how often each batch was consumed
    \* the model object (all specifications)
    weights,           \* number of optimizer steps applied to the live model;
                       \* -1 stands for weights that came from a file this call did not write
    \* one call of train_and_validate_model (Spec)
    pc, err,
    epochs, patience, train_loader, val_loader,
    epoch,             \* the loop variable of `for epoch in range(epochs)`
    iterations,        \* history: iterations of the loop entered
    stopping_ct, min_valid_loss,
    train_loss, train_acc, valid_loss, valid_acc,
    total_loss_train, total_loss_val, total_acc_train, total_acc_val,
    ckpt,              \* the file model_filename
    after_train,       \* history: the weights right after each completed training pass
    n_train, n_val,    \* history: training / validation passes that ran
    n_saves,           \* history: torch.save calls
    loaded,            \* history: torch.load was called
    \* one call of initialise_model (SpecInit)
    i_pc, model_name, num_classes, feature_extract, use_pretrained, model_ft,
    training_started

passvars == <<p_fn, p_loader, p_i, p_acc, p_pc, p_ret, p_hist, p_visits>>

loopvars == <<pc, err, epochs, patience, train_loader, val_loader, epoch, iterations,
              stopping_ct, min_valid_loss, train_loss, train_acc, valid_loss, valid_acc,
              total_loss_train, total_loss_val, total_acc_train, total_acc_val,
              ckpt, after_train, n_train, n_val, n_saves, loaded>>

initvars == <<i_pc, model_name, num_classes, feature_extract, use_pretrained, model_ft,
              training_started>>

vars == <<passvars, weights, loopvars, initvars>>

\* A local variable that has not been assigned yet
Unbound == [bound |-> FALSE, val |-> F(0)]

Bound(v) == [bound |-> TRUE, val |-> v]

NoFile == [exists |-> FALSE, written |-> FALSE, state |-> 0]

\* A file left at model_filename by something other than this call
StaleFile == [exists |-> TRUE, written |-> FALSE, state |-> -1]

NoModel == [arch |-> "None", pretrained |-> FALSE, requires_grad |-> << >>,
            head |-> "None", in_features |-> 0, out_features |-> 0]

\* The parts of the state a specification does not use
PassIdle ==
    /\ p_fn = "train_epoch" /\ p_loader = << >> /\ p_i = 0 /\ p_acc = ZeroAcc
    /\ p_pc = "idle" /\ p_ret = [raised |-> FALSE, loss |-> F(0), acc |-> F(0)]
    /\ p_hist = << >> /\ p_visits = << >>

LoopIdle ==
    /\ pc = "idle" /\ err = "none" /\ epochs = 0 /\ patience = 0
    /\ train_loader = << >> /\ val_loader = << >>
    /\ epoch = 0 /\ iterations = 0 /\ stopping_ct = 0 /\ min_valid_loss = Inf
    /\ train_loss = Unbound /\ train_acc = Unbound
    /\ valid_loss = Unbound /\ valid_acc = Unbound
    /\ total_loss_train = << >> /\ total_loss_val = << >>
    /\ total_acc_train = << >> /\ total_acc_val = << >>
    /\ ckpt = NoFile /\ after_train = << >> /\ n_train = 0 /\ n_val = 0
    /\ n_saves = 0 /\ loaded = FALSE

InitIdle ==
    /\ i_pc = "idle" /\ model_name = "resnet_pret" /\ num_classes = 1
    /\ feature_extract = FALSE /\ use_pretrained = TRUE /\ model_ft = NoModel
    /\ training_started = FALSE

\* ------------------------------------------- SpecEpoch: one call of a pass
Loaders == SeqsUpTo(1..MaxBatchSize, MaxBatches)

\* model.train() / model.eval() and the zeroed accumulators
InitEpoch ==
    /\ p_fn \in PassFns
    /\ p_loader \in Loaders
    /\ p_i = 0
    /\ p_acc = ZeroAcc
    /\ p_pc = "iter"
    /\ p_ret = [raised |-> FALSE, loss |-> F(0), acc |-> F(0)]
    /\ p_hist = << >>
    /\ p_visits = [k \in 1..Len(p_loader) |-> 0]
    /\ weights = 0
    /\ LoopIdle /\ InitIdle

\* One iteration of `for data, labels in loader`
PassBatch ==
    /\ p_pc = "iter"
    /\ p_i < Len(p_loader)
    /\ \E b \in BatchOutcomes(p_loader[p_i + 1]) :
          /\ p_acc' = BatchStep(p_fn, p_acc, b)
          /\ p_hist' = Append(p_hist, b)
    /\ weights' = WeightsAfterBatch(p_fn, weights)
    /\ p_visits' = [p_visits EXCEPT ![p_i + 1] = @ + 1]
    /\ p_i' = p_i + 1
    /\ UNCHANGED <<p_fn, p_loader, p_pc, p_ret, loopvars, initvars>>

\* The loader is exhausted: the averages are computed and returned
PassReturn ==
    /\ p_pc = "iter"
    /\ p_i = Len(p_loader)
    /\ LET r == PassResult(p_fn, p_acc, Len(p_loader))
       IN  /\ ~r.raised
           /\ p_ret' = r
           /\ p_pc' = "returned"
    /\ UNCHANGED <<p_fn, p_loader, p_i, p_acc, p_hist, p_visits, weights, loopvars, initvars>>

\* The loader is exhausted and a division raises ZeroDivisionError
PassRaise ==
    /\ p_pc = "iter"
    /\ p_i = Len(p_loader)
    /\ PassResult(p_fn, p_acc, Len(p_loader)).raised
    /\ p_pc' = "raised"
    /\ UNCHANGED <<p_fn, p_loader, p_i, p_acc, p_ret, p_hist, p_visits, weights, loopvars, initvars>>

NextEpoch == PassBatch \/ PassReturn \/ PassRaise

SpecEpoch == InitEpoch /\ [][NextEpoch]_vars


\* ------------------------- Spec: one call of train_and_validate_model
\* The loaders of the loop: empty, or one batch of one sample
LoopLoaders == {<< >>, <<1>>}

\* The state after lines 85-91
Init ==
    /\ epochs \in 0..MaxEpochs
    /\ patience \in 0..MaxPatience
    /\ train_loader \in LoopLoaders
    /\ val_loader \in LoopLoaders
    /\ ckpt \in {NoFile, StaleFile}
    /\ pc = "head" /\ err = "none"
    /\ epoch = 0 /\ iterations = 0
    /\ min_valid_loss = Inf
    /\ stopping_ct = 0
    /\ total_loss_train = << >> /\ total_loss_val = << >>
    /\ total_acc_train = << >> /\ total_acc_val = << >>
    /\ train_loss = Unbound /\ train_acc = Unbound
    /\ valid_loss = Unbound /\ valid_acc = Unbound
    /\ weights = 0
    /\ after_train = << >> /\ n_train = 0 /\ n_val = 0 /\ n_saves = 0 /\ loaded = FALSE
    /\ PassIdle /\ InitIdle

ShouldRunOffByOne(ct, pat) == ct <= pat

\* if stopping_ct < patience
ShouldRun(ct, pat) == ct < pat

CheckStepNoReset(min, v, ct) ==
    IF FGt(min, v) THEN [min |-> v, save |-> TRUE, ct |-> ct]
    ELSE [min |-> min, save |-> FALSE, ct |-> ct + 1]

\* if min_valid_loss > valid_loss: (update, save, reset) else: stopping_ct += 1
CheckStep(min, v, ct) ==
    IF FGt(min, v) THEN [min |-> v, save |-> TRUE, ct |-> 0]
    ELSE [min |-> min, save |-> FALSE, ct |-> ct + 1]

AppendedSkipped(list, x) == list

\* list.append(x), each of lines 98-101
Appended(list, x) == Append(list, x)

\* torch.save(model.state_dict(), model_filename)
SavedFile(w) == [exists |-> TRUE, written |-> TRUE, state |-> w]

\* `for epoch in range(epochs)` yields the next index, then the test of line 94
EnterIteration ==
    /\ pc = "head"
    /\ epoch < epochs
    /\ iterations' = iterations + 1
    /\ pc' = IF ShouldRun(stopping_ct, patience) THEN "train" ELSE "check"
    /\ UNCHANGED <<err, epochs, patience, train_loader, val_loader, epoch,
                   stopping_ct, min_valid_loss, train_loss, train_acc, valid_loss, valid_acc,
                   total_loss_train, total_loss_val, total_acc_train, total_acc_val,
                   ckpt, after_train, n_train, n_val, n_saves, loaded,
                   weights, passvars, initvars>>

\* Line 95: the call of train_epoch, the whole pass
TrainEpochCall ==
    /\ pc = "train"
    /\ \E outs \in OutcomeSeqs(train_loader) :
          LET r == RunPass("train_epoch", outs)
          IN  /\ weights' = weights + Len(outs)   \* one optimizer.step() per batch
              /\ n_train' = n_train + 1
              /\ IF r.raised
                 THEN /\ pc' = "raised" /\ err' = "ZeroDivisionError"
                      /\ UNCHANGED <<train_loss, train_acc, after_train>>
                 ELSE /\ pc' = "validate" /\ err' = err
                      /\ train_loss' = Bound(r.loss)
                      /\ train_acc' = Bound(r.acc)
                      /\ after_train' = Append(after_train, weights')
    /\ UNCHANGED <<epochs, patience, train_loader, val_loader, epoch, iterations,
                   stopping_ct, min_valid_loss, valid_loss, valid_acc,
                   total_loss_train, total_loss_val, total_acc_train, total_acc_val,
                   ckpt, n_val, n_saves, loaded, passvars, initvars>>

\* Line 96: the call of validate_epoch, the whole pass
ValidateEpochCall ==
    /\ pc = "validate"
    /\ \E outs \in OutcomeSeqs(val_loader) :
          LET r == RunPass("validate_epoch", outs)
          IN  /\ n_val' = n_val + 1
              /\ IF r.raised
                 THEN /\ pc' = "raised" /\ err' = "ZeroDivisionError"
                      /\ UNCHANGED <<valid_loss, valid_acc>>
                 ELSE /\ pc' = "append" /\ err' = err
                      /\ valid_loss' = Bound(r.loss)
                      /\ valid_acc' = Bound(r.acc)
    /\ UNCHANGED <<epochs, patience, train_loader, val_loader, epoch, iterations,
                   stopping_ct, min_valid_loss, train_loss, train_acc,
                   total_loss_train, total_loss_val, total_acc_train, total_acc_val,
                   ckpt, after_train, n_train, n_saves, loaded, weights, passvars, initvars>>

\* Line 98: total_loss_train.append(train_loss)
AppendLossTrain ==
    /\ pc = "append"
    /\ total_loss_train' = Appended(total_loss_train, train_loss.val)
    /\ pc' = "append_loss_val"
    /\ UNCHANGED <<err, epochs, patience, train_loader, val_loader, epoch, iterations,
                   stopping_ct, min_valid_loss, train_loss, train_acc, valid_loss, valid_acc,
                   total_loss_val, total_acc_train, total_acc_val,
                   ckpt, after_train, n_train, n_val, n_saves, loaded,
                   weights, passvars, initvars>>

\* Line 99: total_loss_val.append(valid_loss)
AppendLossVal ==
    /\ pc = "append_loss_val"
    /\ total_loss_val' = Appended(total_loss_val, valid_loss.val)
    /\ pc' = "append_acc_train"
    /\ UNCHANGED <<err, epochs, patience, train_loader, val_loader, epoch, iterations,
                   stopping_ct, min_valid_loss, train_loss, train_acc, valid_loss, valid_acc,
                   total_loss_train, total_acc_train, total_acc_val,
                   ckpt, after_train, n_train, n_val, n_saves, loaded,
                   weights, passvars, initvars>>

\* Line 100: total_acc_train.append(train_acc)
AppendAccTrain ==
    /\ pc = "append_acc_train"
    /\ total_acc_train' = Appended(total_acc_train, train_acc.val)
    /\ pc' = "append_acc_val"
    /\ UNCHANGED <<err, epochs, patience, train_loader, val_loader, epoch, iterations,
                   stopping_ct, min_valid_loss, train_loss, train_acc, valid_loss, valid_acc,
                   total_loss_train, total_loss_val, total_acc_val,
                   ckpt, after_train, n_train, n_val, n_saves, loaded,
                   weights, passvars, initvars>>

\* Line 101: total_acc_val.append(valid_acc)
AppendAccVal ==
    /\ pc = "append_acc_val"
    /\ total_acc_val' = Appended(total_acc_val, valid_acc.val)
    /\ pc' = "check"
    /\ UNCHANGED <<err, epochs, patience, train_loader, val_loader, epoch, iterations,
                   stopping_ct, min_valid_loss, train_loss, train_acc, valid_loss, valid_acc,
                   total_loss_train, total_loss_val, total_acc_train,
                   ckpt, after_train, n_train, n_val, n_saves, loaded,
                   weights, passvars, initvars>>

\* Lines 107-114 with valid_loss assigned
CheckImprovement ==
    /\ pc = "check"
    /\ valid_loss.bound
    /\ LET c == CheckStep(min_valid_loss, valid_loss.val, stopping_ct)
       IN  /\ min_valid_loss' = c.min
           /\ stopping_ct' = c.ct
           /\ ckpt' = IF c.save THEN SavedFile(weights) ELSE ckpt
           /\ n_saves' = IF c.save THEN n_saves + 1 ELSE n_saves
    /\ epoch' = epoch + 1
    /\ pc' = "head"
    /\ UNCHANGED <<err, epochs, patience, train_loader, val_loader, iterations,
                   train_loss, train_acc, valid_loss, valid_acc,
                   total_loss_train, total_loss_val, total_acc_train, total_acc_val,
                   after_train, n_train, n_val, loaded, weights, passvars, initvars>>

\* Line 107 with valid_loss never assigned: UnboundLocalError
CheckUnbound ==
    /\ pc = "check"
    /\ ~valid_loss.bound
    /\ pc' = "raised"
    /\ err' = "UnboundLocalError"
    /\ UNCHANGED <<epochs, patience, train_loader, val_loader, epoch, iterations,
                   stopping_ct, min_valid_loss, train_loss, train_acc, valid_loss, valid_acc,
                   total_loss_train, total_loss_val, total_acc_train, total_acc_val,
                   ckpt, after_train, n_train, n_val, n_saves, loaded,
                   weights, passvars, initvars>>

\* Lines 116-122: the loop is over, the checkpoint is read back and loaded
LoadAndReturn ==
    /\ pc = "head"
    /\ epoch >= epochs
    /\ loaded' = TRUE
    /\ IF ckpt.exists
       THEN /\ weights' = ckpt.state
            /\ pc' = "returned" /\ err' = err
       ELSE /\ weights' = weights
            /\ pc' = "raised" /\ err' = "FileNotFoundError"
    /\ UNCHANGED <<epochs, patience, train_loader, val_loader, epoch, iterations,
                   stopping_ct, min_valid_loss, train_loss, train_acc, valid_loss, valid_acc,
                   total_loss_train, total_loss_val, total_acc_train, total_acc_val,
                   ckpt, after_train, n_train, n_val, n_saves, passvars, initvars>>

Next ==
    \/ EnterIteration
    \/ TrainEpochCall
    \/ ValidateEpochCall
    \/ AppendLossTrain
    \/ AppendLossVal
    \/ AppendAccTrain
    \/ AppendAccVal
    \/ CheckImprovement
    \/ CheckUnbound
    \/ LoadAndReturn

Spec == Init /\ [][Next]_vars


\* --------------------------------- SpecInit: one call of initialise_model
ModelNames == {"resnet_pret", "densenet_pret", "vgg_pret", "other"}

\* models.resnet50(pretrained=...): its parameters, by layer, all trainable;
\* the classification head is the attribute fc
Resnet50(pretrained) ==
    [arch |-> "resnet50", pretrained |-> pretrained,
     requires_grad |-> [l \in {"conv1", "layer1", "layer4", "fc"} |-> TRUE],
     head |-> "fc", in_features |-> 2048, out_features |-> 1000]

\* models.densenet121(pretrained=...); the head is the attribute classifier
Densenet121(pretrained) ==
    [arch |-> "densenet121", pretrained |-> pretrained,
     requires_grad |-> [l \in {"features", "classifier"} |-> TRUE],
     head |-> "classifier", in_features |-> 1024, out_features |-> 1000]

InitialiseBranchDefaultsToResnet(name) ==
    IF name = "densenet_pret" THEN "densenet121" ELSE "resnet50"

\* The if / elif / else of lines 140-158: which backbone, or exit()
InitialiseBranch(name) ==
    IF name = "resnet_pret" THEN "resnet50"
    ELSE IF name = "densenet_pret" THEN "densenet121"
    ELSE "exit"

\* set_parameter_requires_grad: every parameter the model has at the call
SetParameterRequiresGrad(model, feature_extracting) ==
    IF feature_extracting
    THEN [model EXCEPT !.requires_grad = [l \in DOMAIN model.requires_grad |-> FALSE]]
    ELSE model

AttachHeadKeepsOldParams(model, classes) ==
    [model EXCEPT !.out_features = classes]

\* model_ft.<head> = nn.Linear(num_ftrs, num_classes): a new layer, whose
\* parameters are trainable, replaces the old head
AttachHead(model, classes) ==
    [model EXCEPT !.requires_grad[model.head] = TRUE, !.out_features = classes]

InitInit ==
    /\ model_name \in ModelNames
    /\ num_classes \in 1..MaxClasses
    /\ feature_extract \in BOOLEAN
    /\ use_pretrained \in BOOLEAN
    /\ model_ft = NoModel
    /\ i_pc = "start"
    /\ training_started = FALSE
    /\ weights = 0
    /\ PassIdle /\ LoopIdle

\* Lines 140-141 / 145-146: the backbone is constructed
BuildBackbone ==
    /\ i_pc = "start"
    /\ InitialiseBranch(model_name) # "exit"
    /\ model_ft' = IF InitialiseBranch(model_name) = "resnet50"
                   THEN Resnet50(use_pretrained) ELSE Densenet121(use_pretrained)
    /\ i_pc' = "freeze"
    /\ UNCHANGED <<model_name, num_classes, feature_extract, use_pretrained,
                   training_started, weights, passvars, loopvars>>

\* Lines 156-158: exit() raises SystemExit, nothing is returned
ExitOnInvalidName ==
    /\ i_pc = "start"
    /\ InitialiseBranch(model_name) = "exit"
    /\ i_pc' = "exited"
    /\ UNCHANGED <<model_name, num_classes, feature_extract, use_pretrained, model_ft,
                   training_started, weights, passvars, loopvars>>

\* Lines 142 / 147
FreezeStep ==
    /\ i_pc = "freeze"
    /\ model_ft' = SetParameterRequiresGrad(model_ft, feature_extract)
    /\ i_pc' = "attach"
    /\ UNCHANGED <<model_name, num_classes, feature_extract, use_pretrained,
                   training_started, weights, passvars, loopvars>>

\* Lines 143-144 / 148-149
AttachStep ==
    /\ i_pc = "attach"
    /\ model_ft' = AttachHead(model_ft, num_classes)
    /\ i_pc' = "built"
    /\ UNCHANGED <<model_name, num_classes, feature_extract, use_pretrained,
                   training_started, weights, passvars, loopvars>>

\* Line 159
ReturnModel ==
    /\ i_pc = "built"
    /\ i_pc' = "returned"
    /\ UNCHANGED <<model_name, num_classes, feature_extract, use_pretrained, model_ft,
                   training_started, weights, passvars, loopvars>>

\* The caller hands the returned model to the training loop
StartTraining ==
    /\ i_pc = "returned"
    /\ ~training_started
    /\ training_started' = TRUE
    /\ UNCHANGED <<i_pc, model_name, num_classes, feature_extract, use_pretrained, model_ft,
                   weights, passvars, loopvars>>

NextInit ==
    \/ BuildBackbone
    \/ ExitOnInvalidName
    \/ FreezeStep
    \/ AttachStep
    \/ ReturnModel
    \/ StartTraining

SpecInit == InitInit /\ [][NextInit]_vars


\* ------------------------------------------------------------ properties
RECURSIVE SumCorrect(_)
SumCorrect(h) == IF h = << >> THEN 0 ELSE Head(h).correct + SumCorrect(Tail(h))

RECURSIVE SumSize(_)
SumSize(h) == IF h = << >> THEN 0 ELSE Head(h).size + SumSize(Tail(h))

LossesOf(h) == [k \in 1..Len(h) |-> h[k].loss]

\* v < m on floats, written out independently of the code's comparison
StrictlyBelow(v, m) == v.num * m.den < m.num * v.den

\* C1: when train_and_validate_model returns, the checkpoint file (and the
\* weights loaded into the returned model) holds the weights as they were right
\* after the training pass of an epoch whose validation loss is the minimum of
\* total_loss_val (stated for the calls that recorded a validation loss).
C1_CheckpointIsBestEpoch ==
    (pc = "returned" /\ Len(total_loss_val) > 0) =>
        /\ ckpt.written
        /\ weights = ckpt.state
        /\ \E e \in 1..Len(total_loss_val) :
              /\ after_train[e] = ckpt.state
              /\ \A k \in 1..Len(total_loss_val) :
                    ~StrictlyBelow(total_loss_val[k], total_loss_val[e])

\* C2: the epoch loop always performs exactly `epochs` iterations; with the
\* patience budget exhausted (stopping_ct >= patience) it does not stop early.
C2_ExhaustedLoopRunsAllEpochs ==
    (pc \in {"returned", "raised"} /\ stopping_ct >= patience) => iterations = epochs

\* C3: whenever the improvement check of an iteration is evaluated: if the
\* current validation loss is strictly below the minimum seen so far, the
\* weights are saved, the minimum becomes that loss and the remaining patience
\* is the full patience again; otherwise nothing is saved, the minimum is
\* unchanged and the remaining patience drops by exactly one.
C3_ImprovementRule ==
    [][(pc = "check" /\ pc' = "head") =>
        IF StrictlyBelow(valid_loss.val, min_valid_loss)
        THEN /\ ckpt' = [exists |-> TRUE, written |-> TRUE, state |-> weights]
             /\ n_saves' = n_saves + 1
             /\ min_valid_loss' = valid_loss.val
             /\ patience - stopping_ct' = patience
        ELSE /\ ckpt' = ckpt
             /\ n_saves' = n_saves
             /\ min_valid_loss' = min_valid_loss
             /\ patience - stopping_ct' = (patience - stopping_ct) - 1]_vars

\* A non-improving epoch (loss inf) then an improving one: the countdown was
\* decremented, then the weights were saved and the countdown reset
C3_Witness ==
    /\ pc = "head" /\ Len(total_loss_val) = 2 /\ IsInf(total_loss_val[1])
    /\ n_saves = 1 /\ stopping_ct = 0 /\ patience = 2

\* C4: at every point of the batch iteration of a pass the correct count is
\* between 0 and the number of samples seen, and the accuracy returned is
\* 100 * correct / total over the batches of the loader, a value in [0, 100].
C4_AccuracyIsPercentage ==
    /\ 0 <= p_acc.correct /\ p_acc.correct <= p_acc.total
    /\ p_pc = "returned" =>
          /\ p_ret.acc.den = SumSize(p_hist) /\ p_ret.acc.den > 0
          /\ p_ret.acc.num = 100 * SumCorrect(p_hist)
          /\ 0 <= p_ret.acc.num /\ p_ret.acc.num <= 100 * p_ret.acc.den

\* A pass over two batches returned an accuracy strictly between 0 and 100
C4_Witness ==
    /\ p_pc = "returned" /\ p_i = 2
    /\ 0 < p_acc.correct /\ p_acc.correct < p_acc.total

\* C5: train_epoch and validate_epoch visit every batch of the loader exactly
\* once and return the sum of the per-batch losses divided by the number of
\* batches.
C5_MeanLossOverBatches ==
    /\ \A k \in DOMAIN p_visits : p_visits[k] <= 1
    /\ (p_pc = "returned" /\ p_fn \in {"train_epoch", "validate_epoch"}) =>
          /\ \A k \in 1..Len(p_loader) : p_visits[k] = 1
          /\ Len(p_hist) = Len(p_loader)
          /\ \A k \in 1..Len(p_loader) : p_hist[k].size = p_loader[k]
          /\ FEq(p_ret.loss, FDiv(SumLoss(LossesOf(p_hist)), Len(p_loader)))

\* A pass over two batches of two samples returned a finite, non-zero mean loss
C5_Witness ==
    /\ p_pc = "returned" /\ p_fn = "validate_epoch"
    /\ p_loader = <<2, 2>>
    /\ ~IsInf(p_ret.loss) /\ p_ret.loss.num > 0

\* C6: with a model name other than 'resnet_pret' and 'densenet_pret' the call
\* exits without returning a model, so no training starts; with one of the two
\* names it never exits and returns a model.
C6_ExitOnUnrecognisedName ==
    /\ model_name \notin {"resnet_pret", "densenet_pret"} =>
          /\ i_pc \in {"start", "exited"}
          /\ model_ft = NoModel
          /\ ~training_started
          /\ i_pc = "start" => ENABLED ExitOnInvalidName
    /\ model_name \in {"resnet_pret", "densenet_pret"} =>
          /\ i_pc # "exited"
          /\ i_pc = "returned" => model_ft # NoModel

\* The call exited on the commented-out name
C6_Witness == i_pc = "exited" /\ model_name = "vgg_pret"

\* C7: the model returned with feature_extract=True has every parameter frozen
\* except those of the new final linear layer, which are trainable; with
\* feature_extract=False nothing is frozen; the new layer has num_classes outputs.
C7_FrozenExceptNewHead ==
    i_pc \in {"built", "returned"} =>
        /\ model_ft.out_features = num_classes
        /\ model_ft.requires_grad[model_ft.head]
        /\ feature_extract =>
              \A l \in DOMAIN model_ft.requires_grad :
                  l # model_ft.head => ~model_ft.requires_grad[l]
        /\ ~feature_extract =>
              \A l \in DOMAIN model_ft.requires_grad : model_ft.requires_grad[l]

\* A feature-extracting densenet was returned
C7_Witness ==
    /\ i_pc = "returned" /\ feature_extract /\ model_ft.arch = "densenet121"
    /\ num_classes > 1

\* C8: the read-back of the checkpoint is preceded by a write of it made in the
\* same call, and the improvement check never reads valid_loss before a
\* validation pass has assigned it.
C8_WriteBeforeReadBack ==
    /\ loaded => (ckpt.written /\ n_saves >= 1)
    /\ err # "UnboundLocalError"

\* C9: once stopping_ct has reached patience, no later iteration of the loop
\* runs a pass, changes the weights, writes the checkpoint, changes
\* min_valid_loss or resets stopping_ct, which each later iteration increments.
C9_ExhaustionIsAbsorbing ==
    [][(pc # "idle" /\ stopping_ct >= patience) =>
        /\ n_train' = n_train /\ n_val' = n_val
        /\ pc' \notin {"train", "validate", "append", "append_loss_val",
                       "append_acc_train", "append_acc_val"}
        /\ epoch < epochs => weights' = weights
        /\ ckpt' = ckpt /\ n_saves' = n_saves
        /\ min_valid_loss' = min_valid_loss
        /\ stopping_ct' >= stopping_ct
        /\ (pc = "check" /\ pc' = "head") => stopping_ct' = stopping_ct + 1]_vars

\* An iteration was skipped after a positive patience ran out
C9_Witness ==
    /\ pc = "head" /\ patience >= 1 /\ stopping_ct > patience /\ iterations > n_train

\* C10 as stated: at every point of the call the four metric sequences have the
\* same length, at most `epochs`, which is the number of epochs whose passes
\* ran (the count is read in the claim's favour: an epoch counts once its
\* entries are being appended, and a call that has raised is not asked).
C10_LengthsAtEveryPoint ==
    /\ Len(total_loss_train) = Len(total_loss_val)
    /\ Len(total_acc_train) = Len(total_loss_val)
    /\ Len(total_acc_val) = Len(total_loss_val)
    /\ Len(total_loss_val) <= epochs
    /\ pc \in {"head", "check", "returned"} =>
          (Len(total_loss_val) = n_train /\ Len(total_loss_val) = n_val)

\* C10, amended: at every iteration boundary (the loop head, the improvement
\* check, the return) the four metric sequences have the same length, which is
\* the number of epochs whose passes ran; an executed epoch has appended one
\* entry to each and a skipped one none. At every point each length is at most
\* `epochs`; the lengths differ only between lines 98 and 101 of an executed
\* epoch, by one entry and in the order of the appends, and the passes of the
\* epoch in progress are ahead of the sequences by at most one.
C10_MetricLengths ==
    /\ Len(total_loss_train) <= epochs
    /\ Len(total_loss_train) <= iterations
    /\ Len(total_loss_train) >= Len(total_loss_val)
    /\ Len(total_loss_val) >= Len(total_acc_train)
    /\ Len(total_acc_train) >= Len(total_acc_val)
    /\ Len(total_acc_val) >= Len(total_loss_train) - 1
    /\ pc \notin {"append_loss_val", "append_acc_train", "append_acc_val"} =>
          Len(total_loss_train) = Len(total_acc_val)
    /\ pc \in {"head", "check", "returned"} =>
          /\ Len(total_acc_val) = n_train
          /\ Len(total_acc_val) = n_val
    /\ Len(total_acc_val) <= n_val /\ n_val <= n_train
    /\ n_train <= Len(total_acc_val) + 1

\* The call returned after an executed epoch and a skipped one
C10_Witness ==
    /\ pc = "returned" /\ Len(total_acc_val) = 1 /\ iterations = 2

====
